---- MODULE Spec2Model ----
(***************************************************************************)
(* SimpleVector<Type> (simple-vector/simple_vector.h) as a state machine.  *)
(* A heap of storage blocks, the SimpleVector objects over it, and one     *)
(* action per public operation.  Element transfers are carried out slot by *)
(* slot, as std::copy / std::copy_backward do, so that overlapping ranges  *)
(* and references into the container behave as in the code.                *)
(***************************************************************************)
EXTENDS Integers, Sequences, FiniteSets, TLC

\* ---------------------------------------------------------------- bounds
MaxCap == 4
MaxVal == 1
MaxPush == 8
MaxCap2 == 1
NBlocks == 3

Vecs == {"a", "b"}
Values == 0 .. MaxVal
Blocks == 1 .. NBlocks
MoveKinds == {"copy", "reset", "swap"}
\* Type{} : the value-initialised element
Default == 0
\* nullptr
Null == 0

\* vec[x]     the SimpleVector object x: items_ (its block, Null for none), size_, cap_
\* heap[p]    the slots of block p, << >> while p is not allocated
\* moveKind   what the element type's move assignment leaves in its source
\* last       the last call: operation, arguments, the state before it, its result
\* pushRun[x] c0 and k while x has only had k PushBack calls since it was empty
\*            with capacity c0 (c0 = -1 otherwise); followed in SpecPush only
VARIABLES vec, heap, moveKind, last, pushRun
vars == <<vec, heap, moveKind, last, pushRun>>

\* ------------------------------------------------- ArrayPtr<Type> (buffer)
Min(S) == CHOOSE x \in S : \A y \in S : x <= y
Max2(x, y) == IF x >= y THEN x ELSE y

FreeBlocks(h) == {p \in Blocks : h[p] = << >>}

\* ArrayPtr(size): a block of size value-initialised slots, nothing for 0
ArrayPtrNew(h, n) ==
    IF n = 0 THEN [h |-> h, p |-> Null]
    ELSE LET p == Min(FreeBlocks(h))
         IN [h |-> [h EXCEPT ![p] = [i \in 1 .. n |-> Default]], p |-> p]

\* what a block is left as when it is released while not allocated (a second
\* delete[] of the same block); never handed out again
ReleasedTwice == <<0 - 1>>

\* ~ArrayPtr: releases the block, if any
ArrayPtrDelete(h, p) ==
    IF p = Null THEN h
    ELSE IF h[p] = << >> \/ h[p] = ReleasedTwice THEN [h EXCEPT ![p] = ReleasedTwice]
    ELSE [h EXCEPT ![p] = << >>]

\* operator[] of the buffer, 0-based, unchecked
Get(h, p, i) == h[p][i + 1]
Set(h, p, i, v) == [h EXCEPT ![p][i + 1] = v]

\* ------------------------------------------------------ element transfers
\* What a moved-from element holds after `dst = std::move(src)`: the element
\* type decides (a trivially copyable type keeps its value, a resource type is
\* reset, a swapping move assignment hands back the old destination value).
MovedFrom(src, dst) ==
    CASE moveKind = "copy" -> src
      [] moveKind = "reset" -> Default
      [] moveKind = "swap" -> dst

\* *(dp + di) = std::move(*(sp + si))
MoveAssign(h, dp, di, sp, si) ==
    LET s == Get(h, sp, si)
        d == Get(h, dp, di)
    IN Set(Set(h, sp, si, MovedFrom(s, d)), dp, di, s)

\* *(dp + di) = *(sp + si)
CopyAssign(h, dp, di, sp, si) == Set(h, dp, di, Get(h, sp, si))

\* std::copy(sp + first, sp + lim, dp + dfirst), front to back
RECURSIVE StdCopy(_, _, _, _, _, _)
StdCopy(h, sp, first, lim, dp, dfirst) ==
    IF first >= lim THEN h
    ELSE StdCopy(CopyAssign(h, dp, dfirst, sp, first), sp, first + 1, lim, dp, dfirst + 1)

\* std::copy over move iterators
RECURSIVE StdCopyMove(_, _, _, _, _, _)
StdCopyMove(h, sp, first, lim, dp, dfirst) ==
    IF first >= lim THEN h
    ELSE StdCopyMove(MoveAssign(h, dp, dfirst, sp, first), sp, first + 1, lim, dp, dfirst + 1)

\* std::copy_backward(p + first, p + lim, p + dlim), back to front
RECURSIVE StdCopyBackward(_, _, _, _, _)
StdCopyBackward(h, p, first, lim, dlim) ==
    IF first >= lim THEN h
    ELSE StdCopyBackward(CopyAssign(h, p, dlim - 1, p, lim - 1), p, first, lim - 1, dlim - 1)

\* std::copy_backward over move iterators
RECURSIVE StdCopyBackwardMove(_, _, _, _, _)
StdCopyBackwardMove(h, p, first, lim, dlim) ==
    IF first >= lim THEN h
    ELSE StdCopyBackwardMove(MoveAssign(h, p, dlim - 1, p, lim - 1), p, first, lim - 1, dlim - 1)

\* std::fill(p, p + n, value)
FillBlock(h, p, n, v) ==
    IF p = Null THEN h ELSE [h EXCEPT ![p] = [i \in 1 .. Len(@) |-> IF i <= n THEN v ELSE @[i]]]

\* A `const Type&` / `Type&&` argument: an object of the caller, or a slot of a
\* live block (for instance an element of the container itself).
ExtRef(v) == [kind |-> "ext", val |-> v, blk |-> Null, idx |-> 0]
ElemRef(p, i) == [kind |-> "elem", val |-> 0, blk |-> p, idx |-> i]
Deref(h, r) == IF r.kind = "ext" THEN r.val ELSE Get(h, r.blk, r.idx)

\* ---------------------------------------------------------- SimpleVector
\* items_{}, size_ = 0, cap_ = 0
EmptyVec == [items_ |-> Null, size_ |-> 0, cap_ |-> 0]

NoPos == [blk |-> Null, off |-> 0]
NoVal == 0 - 1
Res(h, o, exc) == [h |-> h, o |-> o, exc |-> exc, pos |-> NoPos, val |-> NoVal]
ResPos(h, o, pos) == [h |-> h, o |-> o, exc |-> "none", pos |-> pos, val |-> NoVal]

\* explicit SimpleVector(size_t size)
Sized(h, n) ==
    IF n # 0
    THEN LET t == ArrayPtrNew(h, n)
         IN [h |-> t.h, o |-> [items_ |-> t.p, size_ |-> n, cap_ |-> n]]
    ELSE [h |-> h, o |-> EmptyVec]

\* the elements [0, size) of a vector, as a sequence
Elems(h, o) == [i \in 1 .. o.size_ |-> h[o.items_][i]]

\* begin(): nullptr while cap_ == 0
Begin(o) == IF o.cap_ = 0 THEN Null ELSE o.items_

\* end() - begin(): both are nullptr while cap_ == 0
EndOff(o) == IF o.cap_ = 0 THEN 0 ELSE o.size_

\* items_.swap(tmp.items_), the new size_ and cap_, then `tmp` goes out of scope
\* owning the old block
SwapInAndDrop(h, o, t, newSize, newCap) ==
    [h |-> ArrayPtrDelete(h, o.items_),
     o |-> [items_ |-> t.items_, size_ |-> newSize, cap_ |-> newCap]]

\* mutant: Reserve that grows by the doubling policy of the other methods
ReserveDoubling(h, o, new_capacity, ok) ==
    IF new_capacity <= o.cap_ THEN Res(h, o, "none")
    ELSE IF ~ok THEN Res(h, o, "bad_alloc")
    ELSE LET tmp == Sized(h, Max2(new_capacity, o.cap_ * 2))
             h1 == StdCopyMove(tmp.h, o.items_, 0, EndOff(o), tmp.o.items_, 0)
             r == SwapInAndDrop(h1, o, tmp.o, o.size_, Max2(new_capacity, o.cap_ * 2))
         IN Res(r.h, r.o, "none")

\* mutant: `<` for `<=`, a Reserve of the present capacity reallocates
ReserveAtCapReallocates(h, o, new_capacity, ok) ==
    IF new_capacity < o.cap_ THEN Res(h, o, "none")
    ELSE IF ~ok THEN Res(h, o, "bad_alloc")
    ELSE LET tmp == Sized(h, new_capacity)
             h1 == StdCopyMove(tmp.h, o.items_, 0, EndOff(o), tmp.o.items_, 0)
             r == SwapInAndDrop(h1, o, tmp.o, o.size_, new_capacity)
         IN Res(r.h, r.o, "none")

\* void Reserve(size_t new_capacity)
Reserve(h, o, new_capacity, ok) ==
    IF new_capacity <= o.cap_ THEN Res(h, o, "none")
    ELSE IF ~ok THEN Res(h, o, "bad_alloc")
    ELSE LET tmp == Sized(h, new_capacity)
             h1 == StdCopyMove(tmp.h, o.items_, 0, EndOff(o), tmp.o.items_, 0)
             r == SwapInAndDrop(h1, o, tmp.o, o.size_, new_capacity)
         IN Res(r.h, r.o, "none")

\* Resize, the loop `Type n{}; for (i = size_; i < new_size; ++i) items_[i] = std::move(n);`
RECURSIVE ResizeFill(_, _, _, _, _)
ResizeFill(h, p, i, new_size, n) ==
    IF i >= new_size THEN h
    ELSE ResizeFill(Set(h, p, i, n), p, i + 1, new_size, MovedFrom(n, Get(h, p, i)))

\* mutant: the capacity taken is the requested size, never the doubled one
ResizeCapExact(new_size, cap) == new_size

\* std::max(new_size, cap_ * 2), evaluated for the allocation and again for cap_
ResizeCap(new_size, cap) == Max2(new_size, cap * 2)

\* mutant: size_ is set before the new buffer is allocated
ResizeSizeFirst(h, o, new_size, ok) ==
    IF new_size < o.size_ THEN Res(h, [o EXCEPT !.size_ = new_size], "none")
    ELSE IF new_size <= o.cap_
    THEN Res(ResizeFill(h, o.items_, o.size_, new_size, Default),
             [o EXCEPT !.size_ = new_size], "none")
    ELSE IF ~ok THEN Res(h, [o EXCEPT !.size_ = new_size], "bad_alloc")
    ELSE LET tmp == Sized(h, ResizeCap(new_size, o.cap_))
             h1 == StdCopyMove(tmp.h, o.items_, 0, EndOff(o), tmp.o.items_, 0)
             r == SwapInAndDrop(h1, o, tmp.o, new_size, ResizeCap(new_size, o.cap_))
         IN Res(r.h, r.o, "none")

\* mutant: the buffer is allocated with new_size slots, cap_ takes the maximum
ResizeAllocExact(h, o, new_size, ok) ==
    IF new_size < o.size_ THEN Res(h, [o EXCEPT !.size_ = new_size], "none")
    ELSE IF new_size <= o.cap_
    THEN Res(ResizeFill(h, o.items_, o.size_, new_size, Default),
             [o EXCEPT !.size_ = new_size], "none")
    ELSE IF ~ok THEN Res(h, o, "bad_alloc")
    ELSE LET tmp == Sized(h, new_size)
             h1 == StdCopyMove(tmp.h, o.items_, 0, EndOff(o), tmp.o.items_, 0)
             r == SwapInAndDrop(h1, o, tmp.o, new_size, ResizeCap(new_size, o.cap_))
         IN Res(r.h, r.o, "none")

\* void Resize(size_t new_size)
Resize(h, o, new_size, ok) ==
    IF new_size < o.size_ THEN Res(h, [o EXCEPT !.size_ = new_size], "none")
    ELSE IF new_size <= o.cap_
    THEN Res(ResizeFill(h, o.items_, o.size_, new_size, Default),
             [o EXCEPT !.size_ = new_size], "none")
    ELSE IF ~ok THEN Res(h, o, "bad_alloc")
    ELSE LET tmp == Sized(h, ResizeCap(new_size, o.cap_))
             h1 == StdCopyMove(tmp.h, o.items_, 0, EndOff(o), tmp.o.items_, 0)
             r == SwapInAndDrop(h1, o, tmp.o, new_size, ResizeCap(new_size, o.cap_))
         IN Res(r.h, r.o, "none")

\* mutant: growth by one slot
GrowCapByOne(cap) == cap + 1

\* mutant: growth by a factor of three
GrowCapTriple(cap) == IF cap = 0 THEN 1 ELSE cap * 3

\* capacity after a PushBack that finds the vector full: cap_ = 1, cap_ *= 2
GrowCap(cap) == IF cap = 0 THEN 1 ELSE cap * 2

\* void PushBack(const Type& item)
PushBack(h, o, item, ok) ==
    IF o.size_ < o.cap_
    THEN Res(Set(h, o.items_, o.size_, Deref(h, item)), [o EXCEPT !.size_ = @ + 1], "none")
    ELSE IF ~ok THEN Res(h, o, "bad_alloc")
    ELSE LET tmp == Sized(h, GrowCap(o.cap_))
             h1 == IF o.cap_ = 0 THEN tmp.h
                   ELSE StdCopy(tmp.h, o.items_, 0, EndOff(o), tmp.o.items_, 0)
             h2 == Set(h1, tmp.o.items_, o.size_, Deref(h1, item))
             r == SwapInAndDrop(h2, o, tmp.o, o.size_ + 1, GrowCap(o.cap_))
         IN Res(r.h, r.o, "none")

\* void PushBack(Type&& item)
PushBackMove(h, o, item, ok) ==
    IF o.size_ < o.cap_
    THEN Res(Set(h, o.items_, o.size_, Deref(h, item)), [o EXCEPT !.size_ = @ + 1], "none")
    ELSE IF ~ok THEN Res(h, o, "bad_alloc")
    ELSE LET tmp == Sized(h, GrowCap(o.cap_))
             h1 == IF o.cap_ = 0 THEN tmp.h
                   ELSE StdCopyMove(tmp.h, o.items_, 0, EndOff(o), tmp.o.items_, 0)
             h2 == Set(h1, tmp.o.items_, o.size_, Deref(h1, item))
             r == SwapInAndDrop(h2, o, tmp.o, o.size_ + 1, GrowCap(o.cap_))
         IN Res(r.h, r.o, "none")

\* Iterator Insert(ConstIterator pos, const Type& value), pos == begin() + d
Insert(h, o, d, value, ok) ==
    IF o.cap_ = 0
    THEN LET r == PushBack(h, o, value, ok)
         IN IF r.exc = "none" THEN ResPos(r.h, r.o, [blk |-> Begin(r.o), off |-> 0]) ELSE r
    ELSE IF o.size_ < o.cap_
    THEN LET h1 == StdCopyBackward(h, o.items_, d, o.size_, o.size_ + 1)
             h2 == Set(h1, o.items_, d, Deref(h1, value))
         IN ResPos(h2, [o EXCEPT !.size_ = @ + 1], [blk |-> o.items_, off |-> d])
    ELSE IF ~ok THEN Res(h, o, "bad_alloc")
    ELSE LET tmp == Sized(h, o.cap_ * 2)
             h1 == StdCopy(tmp.h, o.items_, 0, d, tmp.o.items_, 0)
             h2 == Set(h1, tmp.o.items_, d, Deref(h1, value))
             h3 == StdCopy(h2, o.items_, d, o.size_, tmp.o.items_, d + 1)
             r == SwapInAndDrop(h3, o, tmp.o, o.size_ + 1, o.cap_ * 2)
         IN ResPos(r.h, r.o, [blk |-> r.o.items_, off |-> d])

\* Iterator Insert(Iterator pos, Type&& value), pos == begin() + d
InsertMove(h, o, d, value, ok) ==
    IF o.cap_ = 0
    THEN LET r == PushBackMove(h, o, value, ok)
         IN IF r.exc = "none" THEN ResPos(r.h, r.o, [blk |-> Begin(r.o), off |-> 0]) ELSE r
    ELSE IF o.size_ < o.cap_
    THEN LET h1 == StdCopyBackwardMove(h, o.items_, d, o.size_, o.size_ + 1)
             h2 == Set(h1, o.items_, d, Deref(h1, value))
         IN ResPos(h2, [o EXCEPT !.size_ = @ + 1], [blk |-> o.items_, off |-> d])
    ELSE IF ~ok THEN Res(h, o, "bad_alloc")
    ELSE LET tmp == Sized(h, o.cap_ * 2)
             h1 == StdCopyMove(tmp.h, o.items_, 0, d, tmp.o.items_, 0)
             h2 == Set(h1, tmp.o.items_, d, Deref(h1, value))
             h3 == StdCopyMove(h2, o.items_, d, o.size_, tmp.o.items_, d + 1)
             r == SwapInAndDrop(h3, o, tmp.o, o.size_ + 1, o.cap_ * 2)
         IN ResPos(r.h, r.o, [blk |-> r.o.items_, off |-> d])

\* void PopBack() noexcept
PopBack(h, o) == Res(h, [o EXCEPT !.size_ = @ - 1], "none")

\* mutant: the shift starts at pos instead of pos + 1
EraseFromPos(h, o, d) ==
    LET h1 == StdCopyMove(h, o.items_, d, o.size_, o.items_, d)
    IN ResPos(h1, [o EXCEPT !.size_ = @ - 1], [blk |-> o.items_, off |-> d])

\* mutant: no shift, the size alone goes down
EraseDropsLast(h, o, d) ==
    ResPos(h, [o EXCEPT !.size_ = @ - 1], [blk |-> o.items_, off |-> d])

\* Iterator Erase(ConstIterator pos), pos == begin() + d
Erase(h, o, d) ==
    LET h1 == StdCopyMove(h, o.items_, d + 1, o.size_, o.items_, d)
    IN ResPos(h1, [o EXCEPT !.size_ = @ - 1], [blk |-> o.items_, off |-> d])

\* void Clear() noexcept
Clear(h, o) == Res(h, [o EXCEPT !.size_ = 0], "none")

\* mutant: the index checked against the capacity
AtChecksCapacity(h, o, index) ==
    IF index >= o.cap_ THEN Res(h, o, "out_of_range")
    ELSE [h |-> h, o |-> o, exc |-> "none", pos |-> NoPos, val |-> Get(h, o.items_, index)]

\* Type& At(size_t index)
At(h, o, index) ==
    IF index >= o.size_ THEN Res(h, o, "out_of_range")
    ELSE [h |-> h, o |-> o, exc |-> "none", pos |-> NoPos, val |-> Get(h, o.items_, index)]

\* Type& operator[](size_t index) noexcept, built with assertions: the assert
\* stops the program, or items_[index] is read; past the block that read is
\* undefined and gives `past`: some value, or no value at all (a fault)
Subscript(h, o, index, past) ==
    IF ~(index <= o.size_) THEN Res(h, o, "assert")
    ELSE IF index < o.cap_
    THEN [h |-> h, o |-> o, exc |-> "none", pos |-> NoPos, val |-> Get(h, o.items_, index)]
    ELSE IF past = NoVal THEN Res(h, o, "fault")
    ELSE [h |-> h, o |-> o, exc |-> "none", pos |-> NoPos, val |-> past]

\* SimpleVector(size_t size, const Type& value)
SizedValue(h, n, value) ==
    LET tmp == Sized(h, n)
        h1 == FillBlock(tmp.h, Begin(tmp.o), EndOff(tmp.o), value)
    IN [h |-> h1, o |-> [items_ |-> tmp.o.items_, size_ |-> n, cap_ |-> n]]

\* mutant: items_ is copied from other, not exchanged with it
SwapLeavesBlock(o, other) == [o |-> other, other |-> [o EXCEPT !.items_ = other.items_]]

\* void swap(SimpleVector& other) noexcept: the two objects after the call
Swap(o, other) == [o |-> other, other |-> o]

\* Create(begin, end, size) on a vector under construction; the range read
\* through the iterators is given as the sequence init
Create(h, init, n) ==
    LET tmp == Sized(h, n)
        h1 == IF n = 0 THEN tmp.h
              ELSE [tmp.h EXCEPT ![tmp.o.items_] =
                       [i \in 1 .. n |-> IF i <= Len(init) THEN init[i] ELSE @[i]]]
        sw == Swap(EmptyVec, [tmp.o EXCEPT !.size_ = n, !.cap_ = n])
    IN [h |-> ArrayPtrDelete(h1, sw.other.items_), o |-> sw.o]

\* SimpleVector(std::initializer_list<Type> init)
FromList(h, init) == Create(h, init, Len(init))

\* the range [other.begin(), other.end())
Range(h, o) == [i \in 1 .. EndOff(o) |-> h[o.items_][i]]

\* mutant: a member-wise copy, which leaves both objects on the one block
CopyCtorShallow(h, other) == [h |-> h, o |-> other]

\* SimpleVector(const SimpleVector& other)
CopyCtor(h, other) == Create(h, Range(h, other), other.size_)

\* mutant: without the final size_ = 0
ReserveCtorKeepsSize(h, n) ==
    LET tmp == Sized(h, n)
        sw == Swap(EmptyVec, tmp.o)
    IN [h |-> ArrayPtrDelete(tmp.h, sw.other.items_), o |-> sw.o]

\* SimpleVector(const ReserveProxyObj& obj), obj.Res() == n
ReserveCtor(h, n) ==
    LET tmp == Sized(h, n)
        sw == Swap(EmptyVec, tmp.o)
    IN [h |-> ArrayPtrDelete(tmp.h, sw.other.items_), o |-> [sw.o EXCEPT !.size_ = 0]]

\* ArrayPtr& operator=(ArrayPtr&&): the target releases its block and takes
\* the source's, which is left holding nothing
ArrayPtrMoveAssign(h, p, q) == [h |-> ArrayPtrDelete(h, p), p |-> q, q |-> Null]

\* mutant: the members are copied and the source keeps them
MoveCtorCopiesFields(other) == [o |-> other, other |-> other]

\* SimpleVector(SimpleVector&& other) noexcept: the new object and other
MoveCtor(other) == [o |-> other, other |-> EmptyVec]

\* operator==(lhs, rhs)
VecEq(h, lhs, rhs) ==
    IF lhs.size_ # rhs.size_ THEN FALSE
    ELSE \A i \in 0 .. EndOff(lhs) - 1 : Get(h, lhs.items_, i) = Get(h, rhs.items_, i)

\* SimpleVector& operator=(const SimpleVector& rhs), this # &rhs
CopyAssignVec(h, o, rhs, ok) ==
    IF VecEq(h, o, rhs) THEN Res(h, o, "none")
    ELSE IF rhs.size_ # 0 /\ ~ok THEN Res(h, o, "bad_alloc")
    ELSE LET copy_rhs == CopyCtor(h, rhs)
             sw == Swap(o, copy_rhs.o)
         IN Res(ArrayPtrDelete(copy_rhs.h, sw.other.items_), sw.o, "none")

\* mutant: the source keeps its size_
MoveAssignVecKeepsSize(h, o, rhs) ==
    LET m == ArrayPtrMoveAssign(h, o.items_, rhs.items_)
    IN [h |-> m.h,
        o |-> [items_ |-> m.p, size_ |-> rhs.size_, cap_ |-> rhs.cap_],
        other |-> [items_ |-> m.q, size_ |-> rhs.size_, cap_ |-> 0]]

\* SimpleVector& operator=(SimpleVector&& rhs), this # &rhs: h, *this and rhs
MoveAssignVec(h, o, rhs) ==
    LET m == ArrayPtrMoveAssign(h, o.items_, rhs.items_)
    IN [h |-> m.h,
        o |-> [items_ |-> m.p, size_ |-> rhs.size_, cap_ |-> rhs.cap_],
        other |-> [items_ |-> m.q, size_ |-> 0, cap_ |-> 0]]

\* ~SimpleVector
Destroy(h, o) == ArrayPtrDelete(h, o.items_)

\* pushRun[x]: not in a run of PushBack calls / runs are not followed
NoRun == [c0 |-> 0 - 1, k |-> 0]
RunOff == [c0 |-> 0 - 2, k |-> 0]

\* the run of PushBack calls after a call of op that left the object as o2
NextRun(run, op, o2, exc) ==
    IF run = RunOff \/ exc # "none" \/ op \in {"At", "Subscript"} THEN run
    ELSE IF op \in {"PushBack", "PushBackMove"} /\ run.c0 >= 0 THEN [run EXCEPT !.k = @ + 1]
    ELSE IF o2.size_ = 0 THEN [c0 |-> o2.cap_, k |-> 0]
    ELSE NoRun

\* ---------------------------------------------------------------- actions
NoArg == [kind |-> "none", val |-> 0, blk |-> Null, idx |-> 0]

\* no call: the caller has taken the result of the last one
Idle ==
    [op |-> "none", x |-> "a", y |-> "a", d |-> 0 - 1, n |-> 0 - 1, arg |-> NoArg,
     argv |-> NoVal, init |-> << >>, pre |-> [vec |-> << >>, heap |-> << >>],
     pos |-> NoPos, val |-> NoVal, exc |-> "none"]

\* the record of a call: the state before it, the arguments and the result
\* (a call that throws bad_alloc does so before it looks at its arguments)
Call(op, x, y, d, n, arg, r) ==
    IF r.exc = "bad_alloc"
    THEN [Idle EXCEPT !.op = op, !.x = x, !.y = y, !.exc = r.exc,
                      !.pre = [vec |-> vec, heap |-> heap]]
    ELSE [op |-> op, x |-> x, y |-> y, d |-> d, n |-> n, arg |-> arg,
          argv |-> IF arg.kind = "none" THEN NoVal ELSE Deref(heap, arg), init |-> << >>,
          pre |-> [vec |-> vec, heap |-> heap], pos |-> r.pos, val |-> r.val, exc |-> r.exc]

\* one call on the object x with result r; B bounds the capacity explored
Step(op, x, d, n, arg, r, B) ==
    /\ last.op = "none"
    /\ r.o.cap_ <= B
    /\ vec' = [vec EXCEPT ![x] = r.o]
    /\ heap' = r.h
    /\ last' = Call(op, x, x, d, n, arg, r)
    /\ pushRun' = [pushRun EXCEPT ![x] = NextRun(@, op, r.o, r.exc)]
    /\ UNCHANGED moveKind

\* the call has returned and the caller goes on
Return ==
    /\ last.op # "none"
    /\ last' = Idle
    /\ UNCHANGED <<vec, heap, moveKind, pushRun>>

\* operator new[] succeeds or throws; a call that allocates nothing sees neither
AllocOutcomes(allocates) == IF allocates THEN BOOLEAN ELSE {TRUE}

ExtArgs == {ExtRef(v) : v \in Values}
\* arguments that may also refer to an element of x itself, as in v.PushBack(v[i])
Args(x) == ExtArgs \cup {ElemRef(vec[x].items_, i) : i \in 0 .. vec[x].size_ - 1}

PushBackOp(x, B) ==
    \E item \in Args(x), ok \in AllocOutcomes(vec[x].size_ >= vec[x].cap_) :
        Step("PushBack", x, 0 - 1, 0 - 1, item, PushBack(heap, vec[x], item, ok), B)

PushBackMoveOp(x, B) ==
    \E item \in ExtArgs, ok \in AllocOutcomes(vec[x].size_ >= vec[x].cap_) :
        Step("PushBackMove", x, 0 - 1, 0 - 1, item, PushBackMove(heap, vec[x], item, ok), B)

\* assert(pos >= begin() && pos <= end())
InsertOp(x, B) ==
    \E d \in 0 .. vec[x].size_, value \in Args(x),
       ok \in AllocOutcomes(vec[x].size_ >= vec[x].cap_) :
        Step("Insert", x, d, 0 - 1, value, Insert(heap, vec[x], d, value, ok), B)

InsertMoveOp(x, B) ==
    \E d \in 0 .. vec[x].size_, value \in ExtArgs,
       ok \in AllocOutcomes(vec[x].size_ >= vec[x].cap_) :
        Step("InsertMove", x, d, 0 - 1, value, InsertMove(heap, vec[x], d, value, ok), B)

\* assert(!IsEmpty())
PopBackOp(x, B) ==
    /\ vec[x].size_ # 0
    /\ Step("PopBack", x, 0 - 1, 0 - 1, NoArg, PopBack(heap, vec[x]), B)

\* assert(pos >= begin() && pos < end())
EraseOp(x, B) ==
    \E d \in 0 .. vec[x].size_ - 1 :
        Step("Erase", x, d, 0 - 1, NoArg, Erase(heap, vec[x], d), B)

ClearOp(x, B) == Step("Clear", x, 0 - 1, 0 - 1, NoArg, Clear(heap, vec[x]), B)

ResizeOp(x, B) ==
    \E n \in 0 .. B : \E ok \in AllocOutcomes(n > vec[x].cap_) :
        Step("Resize", x, 0 - 1, n, NoArg, Resize(heap, vec[x], n, ok), B)

ReserveOp(x, B) ==
    \E n \in 0 .. B : \E ok \in AllocOutcomes(n > vec[x].cap_) :
        Step("Reserve", x, 0 - 1, n, NoArg, Reserve(heap, vec[x], n, ok), B)

AtOp(x, B) ==
    \E index \in 0 .. B + 1 :
        Step("At", x, 0 - 1, index, NoArg, At(heap, vec[x], index), B)

\* what a read of items_[index] may give when it is outside the block
PastBlock(o, index) == IF index < o.cap_ THEN {NoVal} ELSE Values \cup {NoVal}

SubscriptOp(x, B) ==
    \E index \in 0 .. B + 1 : \E past \in PastBlock(vec[x], index) :
        Step("Subscript", x, 0 - 1, index, NoArg, Subscript(heap, vec[x], index, past), B)

\* v.Erase(v.Insert(pos, value)): Erase at the position the Insert that has just
\* returned gave back; the record keeps the state before that Insert
EraseInsertedOp(x, B) ==
    /\ last.op \in {"Insert", "InsertMove"} /\ last.exc = "none" /\ last.x = x
    /\ LET r == Erase(heap, vec[x], last.pos.off)
       IN /\ last.pos.blk = Begin(vec[x])
          /\ vec' = [vec EXCEPT ![x] = r.o]
          /\ heap' = r.h
          /\ last' = [last EXCEPT !.op = "InsertErase", !.pos = r.pos]
          /\ pushRun' = [pushRun EXCEPT ![x] = NextRun(@, "Erase", r.o, "none")]
          /\ UNCHANGED moveKind

\* ------------------------------------------------------------------- Init
EmptyHeap == [p \in Blocks |-> << >>]

RECURSIVE Lists(_)
Lists(n) ==
    IF n = 0 THEN {<< >>}
    ELSE Lists(n - 1)
            \cup {Append(l, v) : l \in {m \in Lists(n - 1) : Len(m) = n - 1}, v \in Values}

Ctor(op, n, arg, init, c) ==
    [op |-> op, n |-> n, arg |-> arg, init |-> init, h |-> c.h, o |-> c.o]

\* the constructor calls that build a vector on heap h, capacity up to B
Constructed(h, B) ==
    {Ctor("SimpleVector", 0 - 1, NoArg, << >>, [h |-> h, o |-> EmptyVec])}
        \cup {Ctor("Sized", n, NoArg, << >>, Sized(h, n)) : n \in 0 .. B}
        \cup {Ctor("SizedValue", n, ExtRef(v), << >>, SizedValue(h, n, v)) :
                  n \in 0 .. B, v \in Values}
        \cup {Ctor("FromList", Len(l), NoArg, l, FromList(h, l)) : l \in Lists(B)}
        \cup {Ctor("ReserveCtor", n, NoArg, << >>, ReserveCtor(h, n)) : n \in 0 .. B}

\* a is built by one of the constructors (last records that call), b by the
\* default constructor
InitWith(cs) ==
    /\ moveKind \in MoveKinds
    /\ \E c \in cs :
        /\ vec = [x \in Vecs |-> IF x = "a" THEN c.o ELSE EmptyVec]
        /\ heap = c.h
        /\ last = [Idle EXCEPT !.op = c.op, !.n = c.n, !.arg = c.arg, !.init = c.init,
                               !.argv = IF c.arg.kind = "none" THEN NoVal ELSE c.arg.val]

\* ------------------------------------------- Spec: one vector, every method
Init ==
    /\ InitWith(Constructed(EmptyHeap, MaxCap))
    /\ pushRun = [x \in Vecs |-> RunOff]

Next ==
    \/ PushBackOp("a", MaxCap)
    \/ PushBackMoveOp("a", MaxCap)
    \/ InsertOp("a", MaxCap)
    \/ InsertMoveOp("a", MaxCap)
    \/ PopBackOp("a", MaxCap)
    \/ EraseOp("a", MaxCap)
    \/ ClearOp("a", MaxCap)
    \/ ResizeOp("a", MaxCap)
    \/ ReserveOp("a", MaxCap)
    \/ AtOp("a", MaxCap)
    \/ SubscriptOp("a", MaxCap)
    \/ EraseInsertedOp("a", MaxCap)
    \/ Return

Spec == Init /\ [][Next]_vars

\* ------------------------------ SpecPair: two vectors and the calls on both
\* one call on x that involves the object y as well
Step2(op, x, y, ox, oy, h, exc, B) ==
    /\ last.op = "none"
    /\ ox.cap_ <= B /\ oy.cap_ <= B
    /\ vec' = [z \in Vecs |-> IF z = x THEN ox ELSE IF z = y THEN oy ELSE vec[z]]
    /\ heap' = h
    /\ last' = Call(op, x, y, 0 - 1, 0 - 1, NoArg, Res(h, ox, exc))
    /\ pushRun' = [z \in Vecs |-> IF z = x THEN NextRun(pushRun[z], op, ox, exc)
                                   ELSE IF z = y THEN NextRun(pushRun[z], op, oy, exc)
                                   ELSE pushRun[z]]
    /\ UNCHANGED moveKind

\* x.swap(y)
SwapOp(x, y, B) ==
    LET sw == Swap(vec[x], vec[y])
    IN Step2("swap", x, y, sw.o, IF x = y THEN sw.o ELSE sw.other, heap, "none", B)

\* x = y
CopyAssignOp(x, y, B) ==
    \E ok \in AllocOutcomes(~VecEq(heap, vec[x], vec[y]) /\ vec[y].size_ # 0) :
        LET r == CopyAssignVec(heap, vec[x], vec[y], ok)
        IN Step2("CopyAssign", x, y, r.o, IF x = y THEN r.o ELSE vec[y], r.h, r.exc, B)

\* x = std::move(y); `if (this == &rhs) return *this;`
MoveAssignOp(x, y, B) ==
    IF x = y THEN Step2("MoveAssign", x, y, vec[x], vec[x], heap, "none", B)
    ELSE LET r == MoveAssignVec(heap, vec[x], vec[y])
         IN Step2("MoveAssign", x, y, r.o, r.other, r.h, "none", B)

\* the object x ends and a new x is built as SimpleVector x(y)
CopyConstructOp(x, y, B) ==
    /\ x # y
    /\ LET c == CopyCtor(Destroy(heap, vec[x]), vec[y])
       IN Step2("CopyCtor", x, y, c.o, vec[y], c.h, "none", B)

\* the object x ends and a new x is built as SimpleVector x(std::move(y))
MoveConstructOp(x, y, B) ==
    /\ x # y
    /\ LET m == MoveCtor(vec[y])
       IN Step2("MoveCtor", x, y, m.o, m.other, Destroy(heap, vec[x]), "none", B)

\* the results of the calls that change a vector and return
Mutations(h, o, B) ==
    {PushBack(h, o, item, TRUE) : item \in ExtArgs}
        \cup {Insert(h, o, d, item, TRUE) : d \in 0 .. o.size_, item \in ExtArgs}
        \cup {Erase(h, o, d) : d \in 0 .. o.size_ - 1}
        \cup {PopBack(h, o) : d \in 1 .. o.size_}
        \cup {Resize(h, o, n, TRUE) : n \in 0 .. B}
        \cup {Reserve(h, o, n, TRUE) : n \in 0 .. B}
        \cup {Clear(h, o)}

\* SimpleVector x(y); followed at once by one mutating call, on the copy x or on
\* the original y; the record keeps the state before the copy
MutateAfterCopyOp(B) ==
    /\ last.op = "CopyCtor"
    /\ \E z \in {last.x, last.y} : \E r \in Mutations(heap, vec[z], B) :
         /\ r.o.cap_ <= B
         /\ vec' = [vec EXCEPT ![z] = r.o]
         /\ heap' = r.h
         /\ last' = [last EXCEPT
                        !.op = IF z = last.x THEN "CopyMutateCopy" ELSE "CopyMutateOrig"]
         /\ pushRun' = [pushRun EXCEPT ![z] = NextRun(@, "Erase", r.o, "none")]
         /\ UNCHANGED moveKind

\* x = std::move(y) or SimpleVector x(std::move(y)); followed at once by
\* y.PushBack(item) on the moved-from y; the record keeps the state before the move
PushBackMovedFromOp(B) ==
    /\ last.op \in {"MoveAssign", "MoveCtor"} /\ last.x # last.y
    /\ \E item \in ExtArgs :
         LET r == PushBack(heap, vec[last.y], item, TRUE)
         IN /\ r.o.cap_ <= B
            /\ vec' = [vec EXCEPT ![last.y] = r.o]
            /\ heap' = r.h
            /\ last' = [last EXCEPT !.op = "MovePushBack", !.arg = item, !.argv = item.val]
            /\ pushRun' = [pushRun EXCEPT ![last.y] = NextRun(@, "PushBack", r.o, "none")]
            /\ UNCHANGED moveKind

InitPair ==
    /\ InitWith(Constructed(EmptyHeap, MaxCap2))
    /\ pushRun = [x \in Vecs |-> RunOff]

NextPair ==
    \/ \E x \in Vecs :
         \/ PushBackOp(x, MaxCap2)
         \/ PushBackMoveOp(x, MaxCap2)
         \/ InsertOp(x, MaxCap2)
         \/ InsertMoveOp(x, MaxCap2)
         \/ PopBackOp(x, MaxCap2)
         \/ EraseOp(x, MaxCap2)
         \/ ClearOp(x, MaxCap2)
         \/ ResizeOp(x, MaxCap2)
         \/ ReserveOp(x, MaxCap2)
    \/ \E x \in Vecs, y \in Vecs :
         \/ SwapOp(x, y, MaxCap2)
         \/ CopyAssignOp(x, y, MaxCap2)
         \/ MoveAssignOp(x, y, MaxCap2)
         \/ CopyConstructOp(x, y, MaxCap2)
         \/ MoveConstructOp(x, y, MaxCap2)
    \/ MutateAfterCopyOp(MaxCap2)
    \/ PushBackMovedFromOp(MaxCap2)
    \/ Return

SpecPair == InitPair /\ [][NextPair]_vars

\* ---- SpecOwn: two vectors, every call, all elements and arguments Type{}
\* (capacities and blocks do not depend on the values stored, and with one
\* value the capacities can be followed further)
DefaultArg == ExtRef(Default)

PushBackDefaultOp(x, B) ==
    \E ok \in AllocOutcomes(vec[x].size_ >= vec[x].cap_) :
        Step("PushBack", x, 0 - 1, 0 - 1, DefaultArg, PushBack(heap, vec[x], DefaultArg, ok), B)

PushBackMoveDefaultOp(x, B) ==
    \E ok \in AllocOutcomes(vec[x].size_ >= vec[x].cap_) :
        Step("PushBackMove", x, 0 - 1, 0 - 1, DefaultArg,
             PushBackMove(heap, vec[x], DefaultArg, ok), B)

InsertDefaultOp(x, B) ==
    \E d \in 0 .. vec[x].size_, ok \in AllocOutcomes(vec[x].size_ >= vec[x].cap_) :
        Step("Insert", x, d, 0 - 1, DefaultArg, Insert(heap, vec[x], d, DefaultArg, ok), B)

InsertMoveDefaultOp(x, B) ==
    \E d \in 0 .. vec[x].size_, ok \in AllocOutcomes(vec[x].size_ >= vec[x].cap_) :
        Step("InsertMove", x, d, 0 - 1, DefaultArg,
             InsertMove(heap, vec[x], d, DefaultArg, ok), B)

\* the constructor calls whose arguments are all Type{}
ConstructedDefault(h, B) ==
    {c \in Constructed(h, B) :
        c.arg.val = Default /\ \A i \in 1 .. Len(c.init) : c.init[i] = Default}

InitOwn ==
    /\ InitWith(ConstructedDefault(EmptyHeap, MaxCap))
    /\ pushRun = [x \in Vecs |-> RunOff]

NextOwn ==
    \/ \E x \in Vecs :
         \/ PushBackDefaultOp(x, MaxCap)
         \/ PushBackMoveDefaultOp(x, MaxCap)
         \/ InsertDefaultOp(x, MaxCap)
         \/ InsertMoveDefaultOp(x, MaxCap)
         \/ PopBackOp(x, MaxCap)
         \/ EraseOp(x, MaxCap)
         \/ ClearOp(x, MaxCap)
         \/ ResizeOp(x, MaxCap)
         \/ ReserveOp(x, MaxCap)
    \/ \E x \in Vecs, y \in Vecs :
         \/ SwapOp(x, y, MaxCap)
         \/ CopyAssignOp(x, y, MaxCap)
         \/ MoveAssignOp(x, y, MaxCap)
         \/ CopyConstructOp(x, y, MaxCap)
         \/ MoveConstructOp(x, y, MaxCap)
    \/ Return

SpecOwn == InitOwn /\ [][NextOwn]_vars

\* ------------------------- SpecPush: nothing but PushBack after construction
InitPush ==
    /\ InitWith(Constructed(EmptyHeap, MaxCap))
    /\ pushRun = [x \in Vecs |->
                    IF vec[x].size_ = 0 THEN [c0 |-> vec[x].cap_, k |-> 0] ELSE NoRun]

NextPush ==
    \/ PushBackOp("a", MaxPush)
    \/ PushBackMoveOp("a", MaxPush)
    \/ Return

SpecPush == InitPush /\ [][NextPush]_vars

\* ----------------------------------------------------------------- claims
\* the object of the last call before and after it
PreVec == last.pre.vec[last.x]
PreElems == Elems(last.pre.heap, PreVec)
NowVec == vec[last.x]
NowElems == Elems(heap, NowVec)
Returned(ops) == last.op \in ops /\ last.exc = "none"

C2_PushBack ==
    Returned({"PushBack", "PushBackMove"}) =>
        LET s == PreVec.size_
            c == PreVec.cap_
        IN /\ NowVec.size_ = s + 1
           /\ NowElems = Append(PreElems, last.argv)
           /\ NowVec.cap_ = IF s < c THEN c ELSE IF c = 0 THEN 1 ELSE 2 * c

\* a PushBack found the vector full with two elements and doubled it to four
C2_Witness ==
    /\ Returned({"PushBack"})
    /\ PreVec.size_ = 2 /\ PreVec.cap_ = 2 /\ NowVec.cap_ = 4
    /\ NowElems = <<1, 0, 1>>

\* the smallest base * 2^j that is at least need
RECURSIVE Cover(_, _)
Cover(base, need) == IF base >= need THEN base ELSE Cover(2 * base, need)

\* C3: k PushBack calls on an empty vector of capacity c0 give size k, after
\* every one of them the capacity is the smallest 2^j >= size (c0 = 0) or the
\* smallest c0 * 2^j >= size (c0 > 0), and no PushBack lowers the capacity.
C3_PushRun ==
    /\ (pushRun["a"].c0 >= 0 /\ pushRun["a"].k >= 1) =>
           /\ vec["a"].size_ = pushRun["a"].k
           /\ vec["a"].cap_ =
                 Cover(IF pushRun["a"].c0 = 0 THEN 1 ELSE pushRun["a"].c0, vec["a"].size_)
    /\ Returned({"PushBack", "PushBackMove"}) => NowVec.cap_ >= PreVec.cap_

\* five pushes from the default-constructed vector: capacities 1, 2, 4, 4, 8
C3_Witness ==
    /\ pushRun["a"] = [c0 |-> 0, k |-> 5]
    /\ vec["a"].size_ = 5 /\ vec["a"].cap_ = 8
    /\ Returned({"PushBack", "PushBackMove"}) /\ PreVec.cap_ = 4

\* the sequence s without its element at offset d
RemoveAt(s, d) == SubSeq(s, 1, d) \o SubSeq(s, d + 2, Len(s))

\* C4: Insert(begin() + d, value) on elements e[0..s): the size becomes s+1,
\* [0, d) keep e[0..d), the element at d is the value passed, [d+1, s+1) hold
\* e[d..s) in order, the returned position is offset d of the buffer now
\* owned, the capacity stays when s < capacity, doubles when the vector was
\* full and becomes 1 from 0.
C4_Insert ==
    Returned({"Insert"}) =>
        LET s == PreVec.size_
            c == PreVec.cap_
            d == last.d
        IN /\ NowVec.size_ = s + 1
           /\ SubSeq(NowElems, 1, d) = SubSeq(PreElems, 1, d)
           /\ SubSeq(NowElems, d + 2, s + 1) = SubSeq(PreElems, d + 1, s)
           /\ NowElems[d + 1] = last.argv
           /\ last.pos = [blk |-> NowVec.items_, off |-> d]
           /\ NowVec.cap_ = IF s < c THEN c ELSE IF c = 0 THEN 1 ELSE 2 * c

\* C5: Erase(begin() + d), d < s: the size becomes s-1, [0, d) are unchanged,
\* [d, s-1) hold e[d+1..s) in order, the capacity is unchanged, and the
\* returned position is offset d, which is end() exactly when the last element
\* was erased.
C5_Erase ==
    Returned({"Erase"}) =>
        LET s == PreVec.size_
            d == last.d
        IN /\ NowVec.size_ = s - 1
           /\ NowElems = RemoveAt(PreElems, d)
           /\ NowVec.cap_ = PreVec.cap_
           /\ last.pos = [blk |-> NowVec.items_, off |-> d]
           /\ (last.pos.off = NowVec.size_) <=> (d = s - 1)

\* an Erase at the front of three elements
C5_Witness ==
    /\ Returned({"Erase"})
    /\ last.d = 0 /\ PreElems = <<1, 0, 1>> /\ NowElems = <<0, 1>>

\* C6: Insert at any valid offset followed by Erase at the returned position
\* leaves the size and the elements as they were before the Insert; the
\* capacity may have grown.
C6_InsertErase ==
    Returned({"InsertErase"}) =>
        /\ NowVec.size_ = PreVec.size_
        /\ NowElems = PreElems
        /\ NowVec.cap_ >= PreVec.cap_

\* Insert then Erase on a full vector, which the Insert reallocated
C6_Witness ==
    /\ Returned({"InsertErase"})
    /\ PreVec.size_ = 2 /\ PreVec.cap_ = 2 /\ NowVec.cap_ = 4
    /\ PreElems = <<0, 1>> /\ last.d = 1 /\ last.argv = 1

\* C7: after Resize(n) on size s the elements [0, min(s, n)) are unchanged and,
\* when n > s, every element of [s, n) is the default value.
C7_ResizeDefault ==
    Returned({"Resize"}) =>
        LET s == PreVec.size_
            n == last.n
            m == IF s < n THEN s ELSE n
        IN /\ SubSeq(NowElems, 1, m) = SubSeq(PreElems, 1, m)
           /\ \A i \in s + 1 .. n : NowElems[i] = Default

\* C8: after Resize(n) on capacity c the size is n; the capacity is c when
\* n <= c and max(n, 2*c) when n > c.
C8_ResizeCap ==
    Returned({"Resize"}) =>
        LET c == PreVec.cap_
            n == last.n
        IN /\ NowVec.size_ = n
           /\ NowVec.cap_ = IF n <= c THEN c ELSE IF n >= 2 * c THEN n ELSE 2 * c

\* Resize(3) on a full vector of capacity 2 takes the doubled capacity
C8_Witness ==
    /\ Returned({"Resize"})
    /\ PreVec.cap_ = 2 /\ last.n = 3 /\ NowVec.size_ = 3 /\ NowVec.cap_ = 4

\* C9: Reserve(n) keeps the size and the elements; with n <= capacity it
\* changes nothing at all, with n > capacity the capacity becomes exactly n.
C9_Reserve ==
    Returned({"Reserve"}) =>
        /\ NowVec.size_ = PreVec.size_
        /\ NowElems = PreElems
        /\ last.n <= PreVec.cap_ => vec = last.pre.vec /\ heap = last.pre.heap
        /\ last.n > PreVec.cap_ => NowVec.cap_ = last.n

\* Reserve(3) on a vector of capacity 1 holding one element
C9_Witness ==
    /\ Returned({"Reserve"})
    /\ PreVec.cap_ = 1 /\ PreElems = <<1>> /\ last.n = 3 /\ NowVec.cap_ = 3

\* C10: At(index) throws out_of_range exactly when index >= size (the size,
\* not the capacity); a throwing At changes nothing; otherwise it returns the
\* element at index.
C10_At ==
    last.op = "At" =>
        /\ (last.exc = "out_of_range") <=> (last.n >= PreVec.size_)
        /\ last.exc \in {"none", "out_of_range"}
        /\ last.exc = "out_of_range" => vec = last.pre.vec /\ heap = last.pre.heap
        /\ last.exc = "none" => last.val = PreElems[last.n + 1]

\* At on a slot that is allocated but no longer in range throws
C10_Witness ==
    /\ last.op = "At" /\ last.exc = "out_of_range"
    /\ last.n >= NowVec.size_ /\ last.n < NowVec.cap_
    /\ heap[NowVec.items_][last.n + 1] # Default

\* the methods that change the one object they are called on
Mutators ==
    {"PushBack", "PushBackMove", "Insert", "InsertMove", "PopBack", "Erase", "Clear",
     "Resize", "Reserve"}

\* C11: SimpleVector x(c) gives x the size and the elements of c, capacity
\* c.size (not c.capacity) and a block of its own, and leaves c as it was; a
\* mutating call on the copy then leaves c as it was before the copy, one on c
\* leaves the copy with the size and elements c had; and in general a mutating
\* method called on one vector changes neither the size, the capacity, the
\* block nor the elements of another.
C11_Copy ==
    LET c == last.pre.vec[last.y]
        e == Elems(last.pre.heap, c)
    IN /\ Returned({"CopyCtor"}) =>
              /\ NowVec.size_ = c.size_ /\ NowElems = e /\ NowVec.cap_ = c.size_
              /\ NowVec.items_ # Null => NowVec.items_ # vec[last.y].items_
              /\ vec[last.y] = c /\ Elems(heap, c) = e
       /\ Returned({"CopyMutateCopy"}) =>
              vec[last.y] = c /\ Elems(heap, c) = e
       /\ Returned({"CopyMutateOrig"}) =>
              NowVec.size_ = c.size_ /\ NowElems = e /\ NowVec.cap_ = c.size_
       /\ last.op \in Mutators =>
              \A z \in Vecs \ {last.x} :
                  /\ vec[z] = last.pre.vec[z]
                  /\ Elems(heap, vec[z]) = Elems(last.pre.heap, last.pre.vec[z])

\* the copy of a one-element vector has had its element erased, and the
\* original still holds it
C11_Witness ==
    /\ Returned({"CopyMutateCopy"})
    /\ Elems(last.pre.heap, last.pre.vec[last.y]) = <<1>>
    /\ NowVec.size_ = 0 /\ NowVec.cap_ = 1 /\ NowVec.items_ # vec[last.y].items_
    /\ Elems(heap, vec[last.y]) = <<1>>

\* C12: move construction and move assignment from another object leave the
\* source with size 0 and capacity 0 and give the destination the size, the
\* capacity and the elements the source had; a PushBack on the moved-from
\* source then gives it size 1 and capacity 1 and leaves the destination alone;
\* x = std::move(x) changes nothing.
C12_Move ==
    LET src == last.pre.vec[last.y]
        moved == /\ NowVec.size_ = src.size_ /\ NowVec.cap_ = src.cap_
                 /\ NowElems = Elems(last.pre.heap, src)
    IN /\ (Returned({"MoveCtor", "MoveAssign"}) /\ last.x # last.y) =>
              vec[last.y].size_ = 0 /\ vec[last.y].cap_ = 0 /\ moved
       /\ Returned({"MovePushBack"}) =>
              /\ vec[last.y].size_ = 1 /\ vec[last.y].cap_ = 1
              /\ Elems(heap, vec[last.y]) = <<last.argv>>
              /\ moved
       /\ (Returned({"MoveAssign"}) /\ last.x = last.y) =>
              vec = last.pre.vec /\ heap = last.pre.heap

\* a vector holding <<1>> was moved into another that held <<0>>, and then took
\* a PushBack(0) itself
C12_Witness ==
    /\ Returned({"MovePushBack"})
    /\ Elems(last.pre.heap, last.pre.vec[last.y]) = <<1>>
    /\ Elems(last.pre.heap, last.pre.vec[last.x]) = <<0>>
    /\ NowElems = <<1>> /\ Elems(heap, vec[last.y]) = <<0>>
    /\ vec[last.y].items_ # NowVec.items_

\* C13: x = y (copy assignment) leaves y unchanged and x with the size and the
\* elements of y; it changes nothing when x is y itself; otherwise x ends with
\* fresh storage (not the block it had) whose capacity is y's size.
C13_CopyAssign ==
    Returned({"CopyAssign"}) =>
        LET rhs == last.pre.vec[last.y]
            old == last.pre.vec[last.x]
        IN /\ vec[last.y].size_ = rhs.size_
           /\ Elems(heap, vec[last.y]) = Elems(last.pre.heap, rhs)
           /\ NowElems = Elems(last.pre.heap, rhs)
           /\ IF last.x = last.y
              THEN vec = last.pre.vec /\ heap = last.pre.heap
              ELSE /\ vec[last.y] = rhs
                   /\ NowVec.cap_ = rhs.size_
                   /\ NowVec.items_ # Null => NowVec.items_ \notin {old.items_, rhs.items_}

\* the calls that may have to allocate a larger buffer
GrowingOps ==
    {"PushBack", "PushBackMove", "Insert", "InsertMove", "Resize", "Reserve", "CopyAssign"}

\* C14: when the allocation of the new buffer fails inside PushBack or Insert
\* (on a full or zero-capacity vector), Resize or Reserve (above the capacity)
\* or copy assignment, the call throws and every vector's size, capacity, block
\* and elements, and the heap, are exactly as before the call.
C14_AllocFailure ==
    last.exc = "bad_alloc" =>
        /\ last.op \in GrowingOps
        /\ vec = last.pre.vec /\ heap = last.pre.heap
        /\ last.op \in {"PushBack", "PushBackMove", "Insert", "InsertMove"} =>
               PreVec.size_ = PreVec.cap_
        /\ last.op = "CopyAssign" =>
               last.pre.vec[last.y].size_ # 0 /\ last.x # last.y

\* an Insert into a full vector holding <<1>> has thrown bad_alloc
C14_Witness ==
    /\ last.op = "Insert" /\ last.exc = "bad_alloc"
    /\ NowVec.size_ = 1 /\ NowVec.cap_ = 1 /\ NowElems = <<1>>
    /\ \A p \in Blocks : p # NowVec.items_ => heap[p] = << >>

\* C15: the default constructor gives size 0 and capacity 0; SimpleVector(n)
\* gives size == capacity == n with every element the default value, and no
\* block for n == 0; SimpleVector(n, v) gives size == capacity == n with every
\* element v; SimpleVector{list} gives size == capacity == the length of the
\* list with its values in order; SimpleVector(Reserve(n)) gives size 0 and
\* capacity n. The vector built owns the only block in use.
C15_Ctors ==
    LET o == vec["a"]
        e == Elems(heap, o)
    IN /\ last.op = "SimpleVector" => o.size_ = 0 /\ o.cap_ = 0
       /\ last.op = "Sized" =>
              /\ o.size_ = last.n /\ o.cap_ = last.n
              /\ \A i \in 1 .. last.n : e[i] = Default
              /\ last.n = 0 => o.items_ = Null
       /\ last.op = "SizedValue" =>
              /\ o.size_ = last.n /\ o.cap_ = last.n
              /\ \A i \in 1 .. last.n : e[i] = last.argv
       /\ last.op = "FromList" =>
              o.size_ = Len(last.init) /\ o.cap_ = Len(last.init) /\ e = last.init
       /\ last.op = "ReserveCtor" => o.size_ = 0 /\ o.cap_ = last.n
       /\ last.op \in {"SimpleVector", "Sized", "SizedValue", "FromList", "ReserveCtor"} =>
              \A p \in Blocks : p # o.items_ => heap[p] = << >>

\* SimpleVector(Reserve(3)) has been built
C15_Witness ==
    /\ last.op = "ReserveCtor" /\ last.n = 3
    /\ vec["a"].size_ = 0 /\ vec["a"].cap_ = 3 /\ Len(heap[vec["a"].items_]) = 3

\* C16: in every state the capacity of every vector is the number of slots of
\* the block it owns, and the capacity is 0 exactly when it owns no block; in
\* particular the block that Resize allocates above the capacity has the
\* max(new_size, 2 * capacity) slots that Resize then records as capacity.
C16_CapIsBlockLen ==
    /\ \A x \in Vecs :
           /\ (vec[x].cap_ = 0) <=> (vec[x].items_ = Null)
           /\ vec[x].items_ # Null => Len(heap[vec[x].items_]) = vec[x].cap_
    /\ (Returned({"Resize"}) /\ last.n > PreVec.cap_) =>
           /\ Len(heap[NowVec.items_]) = NowVec.cap_
           /\ NowVec.cap_ = Max2(last.n, 2 * PreVec.cap_)

\* Resize(3) on capacity 2 has taken a block of four slots, while the other
\* vector owns a block as well
C16_Witness ==
    /\ Returned({"Resize"}) /\ PreVec.cap_ = 2 /\ last.n = 3
    /\ NowVec.cap_ = 4 /\ Len(heap[NowVec.items_]) = 4
    /\ \E z \in Vecs \ {last.x} : vec[z].cap_ = 3

\* C17: Clear, PopBack, Erase, Resize(n) and Reserve(n) with n <= capacity, and
\* PushBack and Insert while size < capacity, leave the capacity and the block
\* (the value of begin()) as they were, and the block stays allocated; the
\* block of a vector changes only in PushBack/Insert on a full vector,
\* Resize/Reserve above the capacity, assignment, a move from it and swap.
C17_NoRealloc ==
    LET kept == /\ NowVec.items_ = PreVec.items_ /\ NowVec.cap_ = PreVec.cap_
                /\ Begin(NowVec) = Begin(PreVec)
                /\ NowVec.items_ # Null => Len(heap[NowVec.items_]) = PreVec.cap_
        push == {"PushBack", "PushBackMove", "Insert", "InsertMove"}
    IN /\ Returned({"Clear", "PopBack", "Erase"}) => kept
       /\ (Returned({"Resize", "Reserve"}) /\ last.n <= PreVec.cap_) => kept
       /\ (Returned(push) /\ PreVec.size_ < PreVec.cap_) => kept
       /\ (last.op # "none" /\ last.pre.vec # << >>) =>
              \A z \in Vecs :
                  vec[z].items_ # last.pre.vec[z].items_ =>
                      \/ z = last.x /\ last.op \in push /\ PreVec.size_ = PreVec.cap_
                      \/ z = last.x /\ last.op \in {"Resize", "Reserve"}
                            /\ last.n > PreVec.cap_
                      \/ last.op \in {"CopyAssign", "MoveAssign", "swap"}
                      \/ z = last.y /\ last.op = "MoveCtor"
                      \/ z = last.x /\ last.op \in {"CopyCtor", "MoveCtor"}

\* an Insert in the middle of two elements with capacity 4 kept its block
C17_Witness ==
    /\ Returned({"Insert"}) /\ last.d = 1
    /\ PreVec.size_ = 2 /\ PreVec.cap_ = 4 /\ NowVec.size_ = 3
    /\ NowVec.items_ = PreVec.items_ /\ Len(heap[NowVec.items_]) = 4

\* C18: no block is owned by two vectors, every allocated block is owned by a
\* vector (a block that stopped being owned, that of a temporary included, has
\* been released), every owned block is allocated, and no block is ever
\* released a second time.
C18_Ownership ==
    /\ \A x \in Vecs, y \in Vecs :
           (x # y /\ vec[x].items_ # Null) => vec[x].items_ # vec[y].items_
    /\ \A p \in Blocks : (heap[p] # << >>) <=> (\E x \in Vecs : vec[x].items_ = p)
    /\ \A p \in Blocks : heap[p] # ReleasedTwice

\* a copy assignment between two vectors that both owned a block has given the
\* target a new block and released the old one
C18_Witness ==
    /\ Returned({"CopyAssign"}) /\ last.x # last.y
    /\ PreVec.items_ # Null /\ vec[last.y].items_ # Null
    /\ NowVec.items_ \notin {Null, PreVec.items_, vec[last.y].items_}
    /\ heap[PreVec.items_] = << >>
    /\ Cardinality({p \in Blocks : heap[p] # << >>}) = 2

\* C19: the assertion of operator[] passes for every index < size and fails
\* for every index >= size, index == size included; a passing call returns
\* the element at index.
C19_SubscriptAssert ==
    last.op = "Subscript" =>
        /\ (last.exc = "assert") <=> (last.n >= PreVec.size_)
        /\ last.n < PreVec.size_ => last.exc = "none" /\ last.val = PreElems[last.n + 1]

\* C20: PushBack(const Type&) and Insert(pos, const Type&) called with a
\* reference to an element of the vector itself store the value that element
\* had when the call was made: at index size for PushBack, at the returned
\* position for Insert, in the spare-capacity, reallocating and zero-capacity
\* branches alike.
C20_AliasedArg ==
    (Returned({"PushBack", "Insert"}) /\ last.arg.kind = "elem") =>
        LET at == IF last.op = "PushBack" THEN PreVec.size_ ELSE last.d
        IN /\ NowElems[at + 1] = last.argv
           /\ last.argv = PreElems[last.arg.idx + 1]
           /\ last.op = "Insert" => last.pos = [blk |-> NowVec.items_, off |-> at]

====
